---- MODULE Spec2Model ----
(***************************************************************************)
(* Filter/sort/page state synchronisation of the character browser:        *)
(* the router's validateSearch (src/src/router.tsx) and the CharacterList  *)
(* component (src/src/components/CharacterList.tsx): local echo inputs,    *)
(* debounce timers, navigations in flight, the list query and the table;   *)
(* the API client (api.getCharacters, api.getCharacter) and the            *)
(* CharacterDetail view.                                                   *)
(***************************************************************************)
EXTENDS Integers, Sequences, FiniteSets, TLC

(***************************************************************************)
(* JavaScript values.  Every value has the same three fields, so that any  *)
(* two values can be compared: t is the type tag, s the payload of a       *)
(* string, n the payload of a number.                                      *)
(***************************************************************************)
Undef == [t |-> "undefined", s |-> "", n |-> 0]
Null == [t |-> "null", s |-> "", n |-> 0]
NaN == [t |-> "NaN", s |-> "", n |-> 0]
Str(x) == [t |-> "string", s |-> x, n |-> 0]
Num(k) == [t |-> "number", s |-> "", n |-> k]

\* ToBoolean: undefined, null, NaN, 0 and '' are falsy, everything else truthy.
Truthy(v) ==
  CASE v.t = "undefined" -> FALSE
    [] v.t = "null" -> FALSE
    [] v.t = "NaN" -> FALSE
    [] v.t = "number" -> v.n # 0
    [] v.t = "string" -> v.s # ""

\* a || b
Or(a, b) == IF Truthy(a) THEN a ELSE b

\* StringToNumber on the strings of the model: '' is 0, a decimal numeral is its
\* value, any other text is NaN.
StringToNumber(x) ==
  CASE x = "" -> Num(0)
    [] x = "0" -> Num(0)
    [] x = "1" -> Num(1)
    [] x = "2" -> Num(2)
    [] x = "3" -> Num(3)
    [] x = "-1" -> Num(-1)
    [] OTHER -> NaN

\* Number(v)
Number(v) ==
  CASE v.t = "undefined" -> NaN
    [] v.t = "null" -> Num(0)
    [] v.t = "NaN" -> NaN
    [] v.t = "number" -> v
    [] v.t = "string" -> StringToNumber(v.s)

(***************************************************************************)
(* The State Model and the router's decoding of a search object.           *)
(***************************************************************************)
Keys == {"page", "name", "status", "species", "gender", "sortBy", "sortOrder"}

\* search.k: a property that is not there reads as undefined.
Get(obj, k) == IF k \in DOMAIN obj THEN obj[k] ELSE Undef

validateSearchNoDefaults(search) ==
  [page |-> Number(Get(search, "page")),
   name |-> Get(search, "name"),
   status |-> Get(search, "status"),
   species |-> Get(search, "species"),
   gender |-> Get(search, "gender"),
   sortBy |-> Get(search, "sortBy"),
   sortOrder |-> Get(search, "sortOrder")]

validateSearchPagePlusOne(search) ==
  [page |-> IF Number(Get(search, "page")).t = "number"
            THEN Num(Number(Get(search, "page")).n + 1) ELSE Num(1),
   name |-> Or(Get(search, "name"), Str("")),
   status |-> Or(Get(search, "status"), Str("")),
   species |-> Or(Get(search, "species"), Str("")),
   gender |-> Or(Get(search, "gender"), Str("")),
   sortBy |-> Or(Get(search, "sortBy"), Str("")),
   sortOrder |-> Or(Get(search, "sortOrder"), Str("asc"))]

validateSearch(search) ==
  [page |-> Or(Number(Get(search, "page")), Num(1)),
   name |-> Or(Get(search, "name"), Str("")),
   status |-> Or(Get(search, "status"), Str("")),
   species |-> Or(Get(search, "species"), Str("")),
   gender |-> Or(Get(search, "gender"), Str("")),
   sortBy |-> Or(Get(search, "sortBy"), Str("")),
   sortOrder |-> Or(Get(search, "sortOrder"), Str("asc"))]

\* The declared domains of the State Model (router.tsx:28-34, part_001:26-34).
StatusOptions == {"", "alive", "dead", "unknown"}
GenderOptions == {"", "female", "male", "genderless", "unknown"}
SortOrders == {"asc", "desc"}

(***************************************************************************)
(* Bounds of the model and the inputs it draws.                            *)
(***************************************************************************)
DebounceMs == 500
TickMs == 500
MaxPage == 2
MaxEvents == 2

Min(a, b) == IF a < b THEN a ELSE b
Max(a, b) == IF a > b THEN a ELSE b

\* Texts typed into the name and species inputs, options picked in the dropdowns.
NameVals == {Str(""), Str("a"), Str("b")}
SpeciesVals == {Str(""), Str("h")}
StatusChoices == {Str(""), Str("alive")}
GenderChoices == {Str(""), Str("female")}

\* Column headers clicked.
SortClicks == {"name", "status"}

\* A search object with the given parameters present (the others absent).
EmptySearch == [k \in {} |-> Undef]

\* URLs the application is entered with or that history navigation goes to.
ExternalSearches ==
  {EmptySearch,
   [page |-> Num(2), name |-> Str("a"), sortBy |-> Str("name"), sortOrder |-> Str("desc")]}

\* The Records of a Page of the API (the fields the table has columns for).
SomeRecords ==
  <<[id |-> 1, name |-> "Rick", status |-> "Alive", species |-> "Human", gender |-> "Male",
     location_name |-> "Earth"],
    [id |-> 2, name |-> "Morty", status |-> "Dead", species |-> "Human", gender |-> "Male",
     location_name |-> "Citadel"]>>

\* The Page the query holds: info.pages, whether info.prev and info.next are there,
\* and results; has is FALSE while data is undefined.
NoData == [pages |-> 0, prev |-> FALSE, next |-> FALSE, results |-> <<>>, has |-> FALSE]
\* The Pages the API answers a request for page p with: of one page (with Records
\* or without) or of MaxPage pages; prev is there but on the first page, next but
\* on the last.  A page beyond the last is answered 404.
Infos(p) ==
  {[pages |-> 1, prev |-> FALSE, next |-> FALSE, results |-> r, has |-> TRUE] :
     r \in IF p.n = 1 THEN {<<>>, SomeRecords} ELSE {}}
  \cup {[pages |-> MaxPage, prev |-> p.n > 1, next |-> p.n < MaxPage,
          results |-> SomeRecords, has |-> TRUE] : x \in IF p.n <= MaxPage THEN {1} ELSE {}}

\* Every Page the API answers with.
AllInfos == UNION {Infos(Num(p)) : p \in 1..MaxPage}

VARIABLES
  url,            \* the committed search state: what useSearch returns
  pending,        \* navigations issued by navigate() and not yet applied
  searchInput,    \* local echo of the name input
  speciesInput,   \* local echo of the species input
  nameTimers,     \* pending timeouts of the name debounce effect
  speciesTimers,  \* pending timeouts of the species debounce effect
  filters,        \* the memoized filters object: query key and argument of the API call
  apiArg,         \* the argument of the latest api.getCharacters call
  qstatus,        \* status of the list query: "pending", "success", "error"
  fetching,       \* a request of the list query is in flight
  info,           \* info of the Page the query holds
  sorting,        \* the sorting state of the table (useState)
  failureCount,   \* failed attempts of the fetch in flight
  events,         \* number of user and history events so far
  cleared,        \* Clear Filters was pressed and there was no input since
  nameBurst,      \* history of the name input since its last keystroke
  speciesBurst,   \* history of the species input since its last keystroke
  rawSearch,      \* the search object handed to validateSearch
  decoded,        \* the state validateSearch returned for it
  again,          \* the state validateSearch returned for the re-encoded state
  stage,          \* position of the decode / encode round trip
  mounted,        \* CharacterList is mounted
  inflight,       \* keys of the superseded queries whose request is in flight
  dataKey,        \* the query key of the request the held Page answers
  typed,          \* the value the user typed last into each text input
  api,            \* the API client: the call in progress, its request and its outcome
  detail          \* the CharacterDetail view: its route parameter and its query

uiVars == <<url, pending, searchInput, speciesInput, nameTimers,
            speciesTimers, filters, apiArg, qstatus, fetching, info, sorting,
            failureCount, events, cleared, nameBurst,
            speciesBurst, mounted, inflight, dataKey,
            typed>>
urlVars == <<rawSearch, decoded, again, stage>>
clientVars == <<api, detail>>
\* What the list component leaves alone.
others == <<urlVars, clientVars>>
vars == <<uiVars, urlVars, clientVars>>

(***************************************************************************)
(* CharacterList: the values a render computes.                            *)
(***************************************************************************)
FiltersOfEcho(u) ==
  [page |-> u.page,
   name |-> Or(searchInput, Undef),
   status |-> Or(u.status, Undef),
   species |-> Or(u.species, Undef),
   gender |-> Or(u.gender, Undef)]

FiltersOf(u) ==
  [page |-> u.page,
   name |-> Or(u.name, Undef),
   status |-> Or(u.status, Undef),
   species |-> Or(u.species, Undef),
   gender |-> Or(u.gender, Undef)]

buildSearchParamsKeepPage(env, updates) ==
  [page |-> env.page,
   name |-> IF Get(updates, "name") # Undef THEN Get(updates, "name") ELSE env.name,
   status |-> IF Get(updates, "status") # Undef THEN Get(updates, "status") ELSE env.status,
   species |-> IF Get(updates, "species") # Undef THEN Get(updates,
   "species") ELSE env.species,
   gender |-> IF Get(updates, "gender") # Undef THEN Get(updates, "gender") ELSE env.gender,
   sortBy |-> IF Get(updates, "sortBy") # Undef THEN Get(updates, "sortBy") ELSE env.sortBy,
   sortOrder |-> IF Get(updates, "sortOrder") # Undef THEN Get(updates, "sortOrder")
                 ELSE env.sortOrder]

buildSearchParamsTruthy(env, updates) ==
  [page |-> Or(Get(updates, "page"), env.page),
   name |-> Or(Get(updates, "name"), env.name),
   status |-> Or(Get(updates, "status"), env.status),
   species |-> Or(Get(updates, "species"), env.species),
   gender |-> Or(Get(updates, "gender"), env.gender),
   sortBy |-> Or(Get(updates, "sortBy"), env.sortBy),
   sortOrder |-> Or(Get(updates, "sortOrder"), env.sortOrder)]

\* env is the search state of the render whose closure runs.
buildSearchParams(env, updates) ==
  [page |-> IF Get(updates, "page") # Undef THEN Get(updates, "page")
            ELSE IF Get(updates, "page") = Undef /\ Cardinality(DOMAIN updates) > 0
                 THEN Num(1) ELSE env.page,
   name |-> IF Get(updates, "name") # Undef THEN Get(updates, "name") ELSE env.name,
   status |-> IF Get(updates, "status") # Undef THEN Get(updates, "status") ELSE env.status,
   species |-> IF Get(updates, "species") # Undef THEN Get(updates,
   "species") ELSE env.species,
   gender |-> IF Get(updates, "gender") # Undef THEN Get(updates, "gender") ELSE env.gender,
   sortBy |-> IF Get(updates, "sortBy") # Undef THEN Get(updates, "sortBy") ELSE env.sortBy,
   sortOrder |-> IF Get(updates, "sortOrder") # Undef THEN Get(updates, "sortOrder")
                 ELSE env.sortOrder]

\* { ...newFilters, page: 1 }
WithPageOne(newFilters) ==
  [k \in DOMAIN newFilters \cup {"page"} |-> IF k = "page" THEN Num(1) ELSE newFilters[k]]

\* The search object handleSearch navigates with.
handleSearch(env, newFilters) == buildSearchParams(env, WithPageOne(newFilters))

handlePageChangeViaSearch(env, newPage) == handleSearch(env, [page |-> newPage])

\* The search object handlePageChange navigates with.
handlePageChange(env, newPage) == buildSearchParams(env, [page |-> newPage])

clearFiltersKeepSort(env) ==
  [page |-> Num(1), name |-> Str(""), status |-> Str(""), species |-> Str(""),
   gender |-> Str(""), sortBy |-> env.sortBy, sortOrder |-> env.sortOrder]

\* The search object clearFilters navigates with.
clearFilters(env) ==
  [page |-> Num(1), name |-> Str(""), status |-> Str(""), species |-> Str(""),
   gender |-> Str(""), sortBy |-> Str(""), sortOrder |-> Str("asc")]

hasActiveFiltersWithSort(u) ==
  Truthy(Or(Or(Or(Or(u.name, u.status), u.species), u.gender), u.sortBy))

hasActiveFilters(u) ==
  Truthy(Or(Or(Or(u.name, u.status), u.species), u.gender))

isLoadingWhileFetching == fetching

\* isLoading of the query: no data yet and a fetch in flight
isLoading == qstatus = "pending" /\ fetching
isError == qstatus = "error"
\* The branch the component returns: the spinner, the error message, or the list.
View == IF isLoading THEN "loading" ELSE IF isError THEN "error" ELSE "list"
ClearShown == View = "list" /\ hasActiveFilters(url)
PaginationShown == View = "list" /\ info.has /\ info.pages > 1

(***************************************************************************)
(* The table: the sorting state and the rows the sorted row model gives.   *)
(***************************************************************************)
\* The ids of the columns (the accessor 'location.name' has the id location_name).
ColumnIds == {"name", "status", "species", "gender", "location_name"}

\* The order of the texts of the model compared in lower case.
TextRank(x) ==
  CASE x = "Alive" -> 1
    [] x = "Citadel" -> 2
    [] x = "Dead" -> 3
    [] x = "Earth" -> 4
    [] x = "Human" -> 5
    [] x = "Male" -> 6
    [] x = "Morty" -> 7
    [] x = "Rick" -> 8
    [] OTHER -> 0

\* The entries of the sorting state the table can sort by.
availableSorting(sortingState) == SelectSeq(sortingState, LAMBDA e : e.id \in ColumnIds)

\* Row i stands before row j: by the sorted column, reversed for desc, and by the
\* position in the data when the two compare equal.
Before(results, e, i, j) ==
  LET a == TextRank(results[i][e.id])
      b == TextRank(results[j][e.id])
  IN IF a # b THEN (IF e.desc THEN a > b ELSE a < b) ELSE i < j

\* table.getRowModel().rows: the Records of the Page in the order of the sorting state
SortedRows(results, sortingState) ==
  LET av == availableSorting(sortingState)
      n == Len(results)
      Pos(i) == 1 + Cardinality({j \in 1..n : j # i /\ Before(results, av[1], j, i)})
  IN IF av = <<>> THEN results
     ELSE [k \in 1..n |-> results[CHOOSE i \in 1..n : Pos(i) = k]]

Rows == SortedRows(info.results, sorting)

\* column.getFirstSortDir: asc when the first row has a text in the column
FirstSortDir == IF info.results # <<>> THEN "asc" ELSE "desc"

\* column.getIsSorted
IsSorted(sortingState, col) ==
  IF \E i \in 1..Len(sortingState) : sortingState[i].id = col
  THEN LET i == CHOOSE k \in 1..Len(sortingState) : sortingState[k].id = col
       IN IF sortingState[i].desc THEN "desc" ELSE "asc"
  ELSE "no"

\* column.getNextSortingOrder: first direction, then the other, then no sort
NextSortingOrder(sortingState, col) ==
  LET cur == IsSorted(sortingState, col)
  IN IF cur = "no" THEN FirstSortDir
     ELSE IF cur # FirstSortDir THEN "no"
     ELSE IF cur = "desc" THEN "asc" ELSE "desc"

\* column.toggleSorting() through onSortingChange: setSorting
toggleSorting(sortingState, col) ==
  LET order == NextSortingOrder(sortingState, col)
      last == Len(sortingState)
      toggles == last > 0 /\ sortingState[last].id = col
  IN IF toggles /\ order = "no"
     THEN SelectSeq(sortingState, LAMBDA e : e.id # col)
     ELSE IF toggles
     THEN [i \in 1..last |-> IF sortingState[i].id = col
                             THEN [sortingState[i] EXCEPT !.desc = order = "desc"]
                             ELSE sortingState[i]]
     ELSE <<[id |-> col, desc |-> order = "desc"]>>

\* The tbody: the empty-state row when the row model has no rows, else a row per Record
EmptyShown == View = "list" /\ Len(Rows) = 0
TableRows == IF View = "list" THEN Rows ELSE <<>>

\* The four presentations of the list view.
Presentation ==
  IF isLoading THEN "loading"
  ELSE IF isError THEN "error"
  ELSE IF Len(Rows) = 0 THEN "empty"
  ELSE "table"

PrevDisabledByCount == Len(info.results) = 0

\* disabled={!data?.info.prev} and disabled={!data?.info.next}
PrevDisabled == ~(info.has /\ info.prev)
NextDisabled == ~(info.has /\ info.next)

(***************************************************************************)
(* The debounce effects: a timeout per run of the effect, cleared by the   *)
(* cleanup of that run.  A timer keeps the closure of the render that set  *)
(* it: the echo value and the search state of that render.                 *)
(***************************************************************************)
clearTimeoutNever(timers) == timers

\* return () => clearTimeout(timeoutId)
clearTimeout(timers) == {}

\* setTimeout(() => { ... }, 500) in the render with echo value and search state env
setTimeout(value, env) == [remaining |-> DebounceMs, value |-> value, env |-> env]

\* One run of a debounce effect: the cleanup of the previous run, then a new timer.
DebounceEffect(timers, value, env) == clearTimeout(timers) \cup {setTimeout(value, env)}

Elapse(timers) ==
  {[tm EXCEPT !.remaining = Max(0, tm.remaining - TickMs)] : tm \in timers}

Due(timers) == {tm \in timers : tm.remaining = 0}

\* navigate({ to: '/', search }): the router goes to the location of the latest
\* call; a navigation that was not applied yet is superseded.
Navigate(search) == pending' = <<search>>

\* navigate({ to: `/character/${character.id}` }): the navigation handleRowClick
\* issues; it has no search object.
DetailNav(id) == [to |-> <<"character", id>>]
IsListNav(nav) == "to" \notin DOMAIN nav

\* What the user typed last into the name and the species input: undefined when
\* nothing was typed since the list was entered, cleared, or reached by the history.
NoTyped == [name |-> Undef, species |-> Undef]

\* History of an input since its last keystroke.  phase: "open" while the echo holds
\* the value of that keystroke and no debounced commit was issued for it, "committed"
\* once one was, "none" when there was no keystroke or the echo was overwritten since.
\* idle: the time since the keystroke, up to DebounceMs.  entered: Enter was pressed
\* (or the search button) since the keystroke.
\* keys: 2 when the keystroke came less than DebounceMs after another one, else 1.
Keystroke(b) ==
  [phase |-> "open", idle |-> 0, entered |-> FALSE,
   keys |-> IF b.phase = "open" /\ b.idle < DebounceMs THEN 2 ELSE 1]
NoBurst == [phase |-> "none", idle |-> DebounceMs, entered |-> FALSE, keys |-> 0]
Committed(b) == IF b.phase = "open" THEN [b EXCEPT !.phase = "committed"] ELSE b
Entered(b) == IF b.phase = "open" THEN [b EXCEPT !.entered = TRUE] ELSE b
Later(b) == IF b.phase = "open" THEN [b EXCEPT !.idle = Min(DebounceMs, @ + TickMs)] ELSE b

(***************************************************************************)
(* Construction: the route is entered with some URL, the component mounts, *)
(* both debounce effects run once and the query starts its first fetch.    *)
(***************************************************************************)
\* The API client and the detail view before any call (they are defined below).
NoUrl == [base |-> "", path |-> <<>>, query |-> <<>>]

\* The outcome of a call: nothing yet, the value the promise resolves to, or the
\* error it rejects with.
NoOutcome == [kind |-> "none", name |-> "", text |-> "", status |-> 0, body |-> ""]
ApiIdle ==
  [stage |-> "idle", fn |-> "none", filtersArg |-> EmptySearch, id |-> Undef,
   request |-> NoUrl, calls |-> 0, requests |-> 0, status |-> 0, outcome |-> NoOutcome]

\* Route parameters the detail view is opened with: /character/$characterId
CharacterIds == {"1", "2", "abc"}

DetailIdle ==
  [mounted |-> FALSE, characterId |-> "", status |-> "pending", fetching |-> FALSE,
   data |-> "none", error |-> NoOutcome, failureCount |-> 0, visits |-> 0,
   cache |-> [c \in CharacterIds |-> "none"]]

ClientIdle == api = ApiIdle /\ detail = DetailIdle

UrlIdle ==
  /\ rawSearch = EmptySearch
  /\ decoded = EmptySearch
  /\ again = EmptySearch
  /\ stage = "off"

Mount(u) ==
  /\ url = u
  /\ pending = <<>>
  /\ searchInput = u.name
  /\ speciesInput = u.species
  /\ nameTimers = DebounceEffect({}, u.name, u)
  /\ speciesTimers = DebounceEffect({}, u.species, u)
  /\ filters = FiltersOf(u)
  /\ apiArg = filters
  /\ qstatus = "pending"
  /\ fetching = TRUE
  /\ info = NoData
  /\ sorting = <<[id |-> u.sortBy.s, desc |-> u.sortOrder = Str("desc")]>>
  /\ failureCount = 0
  /\ events = 0
  /\ cleared = FALSE
  /\ nameBurst = NoBurst
  /\ speciesBurst = NoBurst
  /\ mounted = TRUE
  /\ inflight = {}
  /\ dataKey = FiltersOf(u)
  /\ typed = NoTyped

Init ==
  /\ \E e \in ExternalSearches : Mount(validateSearch(e))
  /\ UrlIdle
  /\ ClientIdle

(***************************************************************************)
(* User input on the list (the inputs exist only in the list branch).      *)
(***************************************************************************)
\* One more event of the user or of the browser history, up to MaxEvents.
Event ==
  /\ mounted
  /\ events < MaxEvents
  /\ events' = events + 1
  /\ cleared' = FALSE

\* onChange of the name input: setSearchInput, re-render, the name debounce effect
TypeName(v) ==
  /\ Event
  /\ View = "list"
  /\ v # searchInput
  /\ searchInput' = v
  /\ nameTimers' = DebounceEffect(nameTimers, v, url)
  /\ nameBurst' = Keystroke(nameBurst)
  /\ UNCHANGED <<url, pending, speciesInput, speciesTimers, filters, apiArg,
                 qstatus, fetching, failureCount, info, speciesBurst, sorting, others,
                 mounted, inflight, dataKey>>
  /\ typed' = [typed EXCEPT !.name = v]

\* onChange of the species input
TypeSpecies(v) ==
  /\ Event
  /\ View = "list"
  /\ v # speciesInput
  /\ speciesInput' = v
  /\ speciesTimers' = DebounceEffect(speciesTimers, v, url)
  /\ speciesBurst' = Keystroke(speciesBurst)
  /\ UNCHANGED <<url, pending, searchInput, nameTimers, filters, apiArg,
                 qstatus, fetching, failureCount, info, nameBurst, sorting, others,
                 mounted, inflight, dataKey>>
  /\ typed' = [typed EXCEPT !.species = v]

\* Enter in the name input, or the search button
SubmitName ==
  /\ Event
  /\ View = "list"
  /\ Navigate(handleSearch(url, [name |-> searchInput]))
  /\ nameBurst' = Entered(nameBurst)
  /\ UNCHANGED <<url, searchInput, speciesInput, nameTimers, speciesTimers,
                 filters, apiArg, qstatus, fetching, failureCount, info, speciesBurst,
                 sorting, others, mounted, inflight, dataKey, typed>>

\* Enter in the species input
SubmitSpecies ==
  /\ Event
  /\ View = "list"
  /\ Navigate(handleSearch(url, [species |-> speciesInput]))
  /\ speciesBurst' = Entered(speciesBurst)
  /\ UNCHANGED <<url, searchInput, speciesInput, nameTimers, speciesTimers,
                 filters, apiArg, qstatus, fetching, failureCount, info, nameBurst,
                 sorting, others, mounted, inflight, dataKey, typed>>

\* onChange of the status dropdown
SelectStatus(v) ==
  /\ Event
  /\ View = "list"
  /\ v # url.status
  /\ Navigate(handleSearch(url, [status |-> v]))
  /\ UNCHANGED <<url, searchInput, speciesInput, nameTimers, speciesTimers,
                 filters, apiArg, qstatus, fetching, failureCount, info, nameBurst,
                 speciesBurst, sorting, others, mounted, inflight, dataKey, typed>>

\* onChange of the gender dropdown
SelectGender(v) ==
  /\ Event
  /\ View = "list"
  /\ v # url.gender
  /\ Navigate(handleSearch(url, [gender |-> v]))
  /\ UNCHANGED <<url, searchInput, speciesInput, nameTimers, speciesTimers,
                 filters, apiArg, qstatus, fetching, failureCount, info, nameBurst,
                 speciesBurst, sorting, others, mounted, inflight, dataKey, typed>>

\* Previous (d = -1) and Next (d = 1)
PageChange(d) ==
  /\ Event
  /\ PaginationShown
  /\ IF d = -1 THEN ~PrevDisabled ELSE ~NextDisabled /\ url.page.n < MaxPage
  /\ Navigate(handlePageChange(url, Num(url.page.n + d)))
  /\ UNCHANGED <<url, searchInput, speciesInput, nameTimers, speciesTimers,
                 filters, apiArg, qstatus, fetching, failureCount, info, nameBurst,
                 speciesBurst, sorting, others, mounted, inflight, dataKey, typed>>

SortColumnViaUrl(col) ==
  /\ Event
  /\ View = "list"
  /\ sorting' = toggleSorting(sorting, col)
  /\ Navigate(handleSearch(url, [sortBy |-> Str(col)]))
  /\ UNCHANGED <<url, searchInput, speciesInput, nameTimers, speciesTimers,
                 filters, apiArg, qstatus, fetching, failureCount, info, nameBurst,
                 speciesBurst, others, mounted, inflight, dataKey, typed>>

\* A click on the header of a column: header.column.getToggleSortingHandler()
SortColumn(col) ==
  /\ Event
  /\ View = "list"
  /\ sorting' = toggleSorting(sorting, col)
  /\ UNCHANGED <<url, pending, searchInput, speciesInput, nameTimers, speciesTimers,
                 filters, apiArg, qstatus, fetching, failureCount, info, nameBurst,
                 speciesBurst, others, mounted, inflight, dataKey, typed>>

\* The Clear Filters button: both echoes are set to '', then navigate
ClearFilters ==
  /\ mounted
  /\ events < MaxEvents
  /\ events' = events + 1
  /\ cleared' = TRUE
  /\ ClearShown
  /\ Navigate(clearFilters(url))
  /\ searchInput' = Str("")
  /\ speciesInput' = Str("")
  /\ IF searchInput # Str("")
     THEN /\ nameTimers' = DebounceEffect(nameTimers, Str(""), url)
          /\ nameBurst' = NoBurst
     ELSE UNCHANGED <<nameTimers, nameBurst>>
  /\ IF speciesInput # Str("")
     THEN /\ speciesTimers' = DebounceEffect(speciesTimers, Str(""), url)
          /\ speciesBurst' = NoBurst
     ELSE UNCHANGED <<speciesTimers, speciesBurst>>
  /\ UNCHANGED <<url, filters, apiArg, qstatus, fetching, failureCount, info, sorting,
                 others, mounted, inflight, dataKey>>
  /\ typed' = NoTyped

\* Browser back / forward, or a URL entered by hand
ExternalNav(e) ==
  /\ Event
  /\ Navigate(e)
  /\ UNCHANGED <<url, searchInput, speciesInput, nameTimers, speciesTimers,
                 filters, apiArg, qstatus, fetching, failureCount, info, nameBurst,
                 speciesBurst, sorting, others, mounted, inflight, dataKey>>
  /\ typed' = NoTyped

\* A click on a row of the table: handleRowClick(row.original)
RowClick(row) ==
  /\ Event
  /\ row \in 1..Len(TableRows)
  /\ Navigate(DetailNav(TableRows[row].id))
  /\ UNCHANGED <<url, searchInput, speciesInput, nameTimers, speciesTimers, filters,
                 apiArg, qstatus, fetching, failureCount, info, nameBurst, speciesBurst,
                 sorting, others, mounted, inflight, dataKey, typed>>

(***************************************************************************)
(* Timers.                                                                 *)
(***************************************************************************)
\* TickMs pass.  A timer that is due fires before more time passes.
Tick ==
  /\ Due(nameTimers) = {} /\ Due(speciesTimers) = {}
  /\ \/ nameTimers # {} \/ speciesTimers # {}
     \/ Later(nameBurst) # nameBurst \/ Later(speciesBurst) # speciesBurst
  /\ nameTimers' = Elapse(nameTimers)
  /\ speciesTimers' = Elapse(speciesTimers)
  /\ nameBurst' = Later(nameBurst)
  /\ speciesBurst' = Later(speciesBurst)
  /\ UNCHANGED <<events, cleared, url, pending, searchInput, speciesInput, filters, apiArg,
                 qstatus, fetching, failureCount, info, sorting, others, mounted, inflight,
                 dataKey, typed>>

\* The callback of a name timer: if (searchInput !== name) handleSearch({ name: searchInput })
NameTimerFires ==
  \E tm \in Due(nameTimers) :
    /\ nameTimers' = nameTimers \ {tm}
    /\ IF tm.value # tm.env.name
       THEN /\ Navigate(handleSearch(tm.env, [name |-> tm.value]))
            /\ nameBurst' = Committed(nameBurst)
       ELSE UNCHANGED <<pending, nameBurst>>
    /\ UNCHANGED <<events, cleared, url, searchInput, speciesInput, speciesTimers, filters,
                   apiArg,
                   qstatus, fetching, failureCount, info, speciesBurst, sorting, others,
                   mounted, inflight, dataKey, typed>>

\* The callback of a species timer
SpeciesTimerFires ==
  \E tm \in Due(speciesTimers) :
    /\ speciesTimers' = speciesTimers \ {tm}
    /\ IF tm.value # tm.env.species
       THEN /\ Navigate(handleSearch(tm.env, [species |-> tm.value]))
            /\ speciesBurst' = Committed(speciesBurst)
       ELSE UNCHANGED <<pending, speciesBurst>>
    /\ UNCHANGED <<events, cleared, url, searchInput, speciesInput, nameTimers, filters,
                   apiArg,
                   qstatus, fetching, failureCount, info, nameBurst, sorting, others,
                   mounted, inflight, dataKey, typed>>

(***************************************************************************)
(* The router applies a navigation: validateSearch, re-render with the new *)
(* search state, the resync effects, and the query for the new key.        *)
(***************************************************************************)
ApplyNavNoResync ==
  /\ pending # <<>>
  /\ IsListNav(Head(pending))
  /\ LET nav == Head(pending)
         u == validateSearch(nav)
         key == FiltersOf(u)
     IN /\ url' = u
        /\ pending' = Tail(pending)
        /\ UNCHANGED <<searchInput, nameTimers, nameBurst>>
        /\ UNCHANGED <<speciesInput, speciesTimers, speciesBurst>>
        \* useQuery({ queryKey: ['characters', filters], ... })
        /\ filters' = key
        /\ IF key # filters
           THEN /\ fetching' = TRUE
                /\ failureCount' = 0
                /\ apiArg' = key
                \* the query of the new key: without data, or with the Page it has cached
                /\ \/ qstatus' = "pending" /\ info' = NoData
                   \/ qstatus' = "success" /\ info' \in Infos(u.page)
                /\ dataKey' = key
                \* the request of the query that is left goes on; a request for the
                \* new key that is in flight already is the one the query waits for
                /\ inflight' = (IF fetching THEN inflight \cup {filters} ELSE inflight) \ {key}
           ELSE UNCHANGED <<apiArg, qstatus, fetching, failureCount, info, dataKey,
                            inflight>>
  /\ UNCHANGED <<events, cleared, sorting, others, mounted, typed>>

ApplyNav ==
  /\ pending # <<>>
  /\ IsListNav(Head(pending))
  /\ LET nav == Head(pending)
         u == validateSearch(nav)
         key == FiltersOf(u)
     IN /\ url' = u
        /\ pending' = Tail(pending)
        \* useEffect(() => setSearchInput(name), [name])
        /\ IF u.name # url.name /\ u.name # searchInput
           THEN /\ searchInput' = u.name
                /\ nameTimers' = DebounceEffect(nameTimers, u.name, u)
                /\ nameBurst' = NoBurst
           ELSE UNCHANGED <<searchInput, nameTimers, nameBurst>>
        \* useEffect(() => setSpeciesInput(species), [species])
        /\ IF u.species # url.species /\ u.species # speciesInput
           THEN /\ speciesInput' = u.species
                /\ speciesTimers' = DebounceEffect(speciesTimers, u.species, u)
                /\ speciesBurst' = NoBurst
           ELSE UNCHANGED <<speciesInput, speciesTimers, speciesBurst>>
        \* useQuery({ queryKey: ['characters', filters], ... })
        /\ filters' = key
        /\ IF key # filters
           THEN /\ fetching' = TRUE
                /\ failureCount' = 0
                /\ apiArg' = key
                \* the query of the new key: without data, or with the Page it has cached
                /\ \/ qstatus' = "pending" /\ info' = NoData
                   \/ qstatus' = "success" /\ info' \in Infos(u.page)
                /\ dataKey' = key
                \* the request of the query that is left goes on; a request for the
                \* new key that is in flight already is the one the query waits for
                /\ inflight' = (IF fetching THEN inflight \cup {filters} ELSE inflight) \ {key}
           ELSE UNCHANGED <<apiArg, qstatus, fetching, failureCount, info, dataKey,
                            inflight>>
  /\ UNCHANGED <<events, cleared, sorting, others, mounted, typed>>

LeaveListKeepsTimers ==
  /\ mounted
  /\ pending # <<>>
  /\ ~IsListNav(Head(pending))
  /\ pending' = Tail(pending)
  /\ mounted' = FALSE
  /\ UNCHANGED <<events, cleared, url, searchInput, speciesInput, nameTimers,
                 speciesTimers, filters, apiArg, qstatus, fetching, failureCount, info,
                 nameBurst, speciesBurst, sorting, others, inflight, dataKey, typed>>

\* The router applies a navigation to /character/$characterId: the list route is
\* left, CharacterList unmounts and the cleanup of each debounce effect runs.  (The
\* view that mounts instead is the subject of SpecDetail.)
LeaveList ==
  /\ mounted
  /\ pending # <<>>
  /\ ~IsListNav(Head(pending))
  /\ pending' = Tail(pending)
  /\ mounted' = FALSE
  /\ nameTimers' = clearTimeout(nameTimers)
  /\ speciesTimers' = clearTimeout(speciesTimers)
  /\ UNCHANGED <<events, cleared, url, searchInput, speciesInput, filters, apiArg,
                 qstatus, fetching, failureCount, info, nameBurst, speciesBurst,
                 sorting, others, inflight, dataKey, typed>>

(***************************************************************************)
(* The list query.                                                         *)
(***************************************************************************)
\* Retries of a failed query before it is an error: the option of the QueryClient
\* the application creates.
queryRetry == 0

FetchSucceeds(i) ==
  /\ fetching
  /\ i \in Infos(apiArg.page)
  /\ fetching' = FALSE
  /\ failureCount' = 0
  /\ qstatus' = "success"
  /\ info' = i
  /\ dataKey' = apiArg
  /\ UNCHANGED <<events, cleared, url, pending, searchInput, speciesInput, nameTimers,
                 speciesTimers, filters, apiArg, nameBurst, speciesBurst, sorting, others,
                 mounted, inflight, typed>>

\* The request fails: the query tries again up to queryRetry times, then it is in
\* error; the Page it holds, if any, is kept.
FetchFails ==
  /\ fetching
  /\ IF failureCount < queryRetry
     THEN /\ failureCount' = failureCount + 1
          /\ UNCHANGED <<fetching, qstatus>>
     ELSE /\ fetching' = FALSE
          /\ qstatus' = "error"
          /\ UNCHANGED failureCount
  /\ UNCHANGED <<events, cleared, url, pending, searchInput, speciesInput, nameTimers,
                 speciesTimers, filters, apiArg, info, nameBurst, speciesBurst, sorting,
                 others, mounted, inflight, dataKey, typed>>

StaleFetchSettlesShown ==
  \E k \in inflight :
    /\ inflight' = inflight \ {k}
    /\ \/ /\ qstatus' = "success"
          /\ info' \in Infos(k.page)
          /\ dataKey' = k
       \/ UNCHANGED <<qstatus, info, dataKey>>
    /\ UNCHANGED <<events, cleared, url, pending, searchInput, speciesInput, nameTimers,
                   speciesTimers, filters, apiArg, fetching, failureCount, nameBurst,
                   speciesBurst, sorting, others, mounted, typed>>

\* The request of a superseded query settles, with a Page or with a failure: the
\* outcome goes to the query of its own key in the cache; the observer of
\* CharacterList, which is on the query of the current key, is not notified.
StaleFetchSettles ==
  \E k \in inflight :
    /\ inflight' = inflight \ {k}
    /\ UNCHANGED <<events, cleared, url, pending, searchInput, speciesInput, nameTimers,
                   speciesTimers, filters, apiArg, qstatus, fetching, failureCount, info,
                   dataKey, nameBurst, speciesBurst, sorting, others, mounted, typed>>

RefetchFirstPage ==
  /\ Event
  /\ View = "error" \/ (View = "list" /\ ~fetching)
  /\ fetching' = TRUE
  /\ failureCount' = 0
  /\ apiArg' = [filters EXCEPT !.page = Num(1)]
  /\ qstatus' = IF info.has THEN qstatus ELSE "pending"
  /\ UNCHANGED <<url, pending, searchInput, speciesInput, nameTimers,
                 speciesTimers, filters, info, nameBurst, speciesBurst, sorting, others,
                 mounted, inflight, dataKey, typed>>

\* Try Again in the error branch, Refresh in the list branch: refetch().  A query
\* that holds no data is pending again while it fetches; one that holds data keeps
\* its status.
Refetch ==
  /\ Event
  /\ View = "error" \/ (View = "list" /\ ~fetching)
  /\ fetching' = TRUE
  /\ failureCount' = 0
  /\ apiArg' = filters
  /\ qstatus' = IF info.has THEN qstatus ELSE "pending"
  /\ UNCHANGED <<url, pending, searchInput, speciesInput, nameTimers,
                 speciesTimers, filters, info, nameBurst, speciesBurst, sorting, others,
                 mounted, inflight, dataKey, typed>>

Next ==
  \/ \E v \in NameVals : TypeName(v)
  \/ \E v \in SpeciesVals : TypeSpecies(v)
  \/ SubmitName
  \/ SubmitSpecies
  \/ \E v \in StatusChoices : SelectStatus(v)
  \/ \E v \in GenderChoices : SelectGender(v)
  \/ \E d \in {-1, 1} : PageChange(d)
  \/ \E col \in SortClicks : SortColumn(col)
  \/ ClearFilters
  \/ \E row \in 1..2 : RowClick(row)
  \/ \E e \in ExternalSearches : ExternalNav(e)
  \/ Tick
  \/ NameTimerFires
  \/ SpeciesTimerFires
  \/ ApplyNav
  \/ LeaveList
  \/ \E i \in AllInfos : FetchSucceeds(i)
  \/ FetchFails
  \/ StaleFetchSettles
  \/ Refetch

Spec == Init /\ [][Next]_vars

\* The event loop runs: time passes, a timer that is due fires, the router applies
\* the navigation it was given.  The user and the network are free to stay silent.
SpecLive ==
  /\ Spec
  /\ WF_vars(Tick)
  /\ WF_vars(NameTimerFires)
  /\ WF_vars(SpeciesTimerFires)
  /\ WF_vars(ApplyNav)
  /\ WF_vars(LeaveList)

(***************************************************************************)
(* The router alone: a search object parsed from some URL query is decoded *)
(* by validateSearch, the state is written back as a search object (with   *)
(* its empty fields kept, as buildSearchParams writes them, or left out),  *)
(* and decoded again.                                                      *)
(***************************************************************************)
PageRaw == {Undef, Null, Num(0), Num(1), Num(2), Num(-1), Str("2"), Str("abc")}
NameRaw == {Undef, Str(""), Str("a")}
StatusRaw == {Undef, Str("foo")} \cup {Str(x) : x \in StatusOptions}
SpeciesRaw == {Undef, Str(""), Str("h")}
GenderRaw == {Undef, Str("foo")} \cup {Str(x) : x \in GenderOptions}
SortByRaw == {Undef, Str(""), Str("name")}
SortOrderRaw == {Undef, Str(""), Str("up")} \cup {Str(x) : x \in SortOrders}

\* The search object of a query: a parameter that is not in the query is not a key.
Present(f) == [k \in {x \in DOMAIN f : f[x] # Undef} |-> f[k]]

RawSearches ==
  {Present(f) : f \in [page : PageRaw, name : NameRaw, status : StatusRaw,
                       species : SpeciesRaw, gender : GenderRaw, sortBy : SortByRaw,
                       sortOrder : SortOrderRaw]}

\* The state written back with every field, empty strings included.
KeepEmpty(s) == buildSearchParams(s, EmptySearch)
\* The state written back with its empty-string fields left out.
OmitEmpty(s) == [k \in {x \in DOMAIN s : s[x] # Str("")} |-> s[k]]

\* The component is not part of this specification.
UiIdle ==
  /\ url = EmptySearch
  /\ pending = <<>>
  /\ searchInput = Str("")
  /\ speciesInput = Str("")
  /\ nameTimers = {}
  /\ speciesTimers = {}
  /\ filters = EmptySearch
  /\ apiArg = EmptySearch
  /\ qstatus = "pending"
  /\ fetching = FALSE
  /\ info = NoData
  /\ sorting = <<>>
  /\ failureCount = 0
  /\ events = 0
  /\ cleared = FALSE
  /\ nameBurst = NoBurst
  /\ speciesBurst = NoBurst
  /\ mounted = FALSE
  /\ inflight = {}
  /\ dataKey = EmptySearch
  /\ typed = NoTyped

InitURL ==
  /\ UiIdle
  /\ ClientIdle
  /\ rawSearch \in RawSearches
  /\ decoded = EmptySearch
  /\ again = EmptySearch
  /\ stage = "raw"

Decode ==
  /\ stage = "raw"
  /\ decoded' = validateSearch(rawSearch)
  /\ stage' = "decoded"
  /\ UNCHANGED <<uiVars, clientVars, rawSearch, again>>

Encode(omit) ==
  /\ stage = "decoded"
  /\ rawSearch' = IF omit THEN OmitEmpty(decoded) ELSE KeepEmpty(decoded)
  /\ stage' = IF omit THEN "omitted" ELSE "kept"
  /\ UNCHANGED <<uiVars, clientVars, decoded, again>>

DecodeAgain ==
  /\ stage \in {"omitted", "kept"}
  /\ again' = validateSearch(rawSearch)
  /\ stage' = IF stage = "omitted" THEN "omitted-decoded" ELSE "kept-decoded"
  /\ UNCHANGED <<uiVars, clientVars, rawSearch, decoded>>

NextURL ==
  \/ Decode
  \/ \E omit \in BOOLEAN : Encode(omit)
  \/ DecodeAgain

SpecURL == InitURL /\ [][NextURL]_vars

(***************************************************************************)
(* The API client (api.getCharacters, api.getCharacter): one call at a     *)
(* time is followed from its request to its outcome.                       *)
(***************************************************************************)
MaxCalls == 2

BASE_URL == "https://rickandmortyapi.com/api"

\* Number.prototype.toString on the numbers of the model.
NumberToString(v) ==
  CASE v.t = "NaN" -> "NaN"
    [] v.t = "number" /\ v.n = -1 -> "-1"
    [] v.t = "number" /\ v.n = 0 -> "0"
    [] v.t = "number" /\ v.n = 1 -> "1"
    [] v.t = "number" /\ v.n = 2 -> "2"
    [] v.t = "number" /\ v.n = 3 -> "3"
    [] OTHER -> "4"

\* URLSearchParams.toString writes a value form-urlencoded: a space becomes '+'.
FormEncode(x) == IF x = "rick s" THEN "rick+s" ELSE x

\* params.append(key, value) when the field of filters is truthy
AppendIf(params, filtersArg, key, text) ==
  IF Truthy(Get(filtersArg, key)) THEN Append(params, <<key, FormEncode(text)>>) ELSE params

AppendAlways(params, filtersArg, key, text) ==
  IF Get(filtersArg, key) # Undef THEN Append(params, <<key, FormEncode(text)>>) ELSE params

getCharactersParamsSendsEmpty(filtersArg) ==
  LET p1 == AppendIf(<<>>, filtersArg, "page", NumberToString(Get(filtersArg, "page")))
      p2 == AppendAlways(p1, filtersArg, "name", Get(filtersArg, "name").s)
      p3 == AppendIf(p2, filtersArg, "status", Get(filtersArg, "status").s)
      p4 == AppendIf(p3, filtersArg, "species", Get(filtersArg, "species").s)
  IN AppendIf(p4, filtersArg, "gender", Get(filtersArg, "gender").s)

\* The URLSearchParams getCharacters builds: the pairs it appends, in order.
getCharactersParams(filtersArg) ==
  LET p1 == AppendIf(<<>>, filtersArg, "page", NumberToString(Get(filtersArg, "page")))
      p2 == AppendIf(p1, filtersArg, "name", Get(filtersArg, "name").s)
      p3 == AppendIf(p2, filtersArg, "status", Get(filtersArg, "status").s)
      p4 == AppendIf(p3, filtersArg, "species", Get(filtersArg, "species").s)
  IN AppendIf(p4, filtersArg, "gender", Get(filtersArg, "gender").s)

\* The URL of a request: base, path, and the query (no '?' when it is empty).
getCharactersUrl(filtersArg) ==
  [base |-> BASE_URL, path |-> <<"character">>, query |-> getCharactersParams(filtersArg)]

getCharacterUrl(id) ==
  [base |-> BASE_URL, path |-> <<"character", NumberToString(id)>>, query |-> <<>>]

\* The value the promise of a call resolves to.
Value(body) == [kind |-> "value", name |-> "", text |-> "", status |-> 0, body |-> body]
\* throw new Error(`Failed to fetch ...: ${response.status}`)
HttpError(text, status) ==
  [kind |-> "error", name |-> "Error", text |-> text, status |-> status, body |-> ""]
\* fetch rejects with a TypeError when the transport fails
NetworkError ==
  [kind |-> "error", name |-> "TypeError", text |-> "Failed to fetch", status |-> 0,
  body |-> ""]
\* response.json() rejects with a SyntaxError when the body is not JSON
ParseError ==
  [kind |-> "error", name |-> "SyntaxError", text |-> "Unexpected token", status |-> 0,
   body |-> ""]

\* response.ok
Ok(status) == status >= 200 /\ status <= 299

\* Statuses the server answers with, and what the body of an answer parses to.
Statuses == {200, 299, 304, 404, 500}
Bodies == {"Page", "Record", "null"}

\* Arguments the client is called with.
FilterInputs ==
  {Present(f) : f \in [page : {Undef, Num(0), Num(1), Num(2)},
                       name : {Undef, Str(""), Str("rick s")},
                       status : {Undef, Str(""), Str("alive")},
                       species : {Undef, Str(""), Str("human")},
                       gender : {Undef, Str(""), Str("female")}]}
IdInputs == {Num(1), Num(2), NaN}

\* The client up to its first await: the URL is built and fetch(url) is called.
CallGetCharacters(filtersArg) ==
  api' = [stage |-> "fetch", fn |-> "getCharacters", filtersArg |-> filtersArg,
          id |-> Undef, request |-> getCharactersUrl(filtersArg),
          calls |-> api.calls + 1, requests |-> api.requests + 1, status |-> 0,
          outcome |-> NoOutcome]

CallGetCharacter(id) ==
  api' = [stage |-> "fetch", fn |-> "getCharacter", filtersArg |-> EmptySearch,
          id |-> id, request |-> getCharacterUrl(id),
          calls |-> api.calls + 1, requests |-> api.requests + 1, status |-> 0,
          outcome |-> NoOutcome]

FailureText == IF api.fn = "getCharacters" THEN "Failed to fetch characters: "
               ELSE "Failed to fetch character: "

\* A client that does not test response.ok.
ResponseArrivesUnchecked(status) ==
  api' = [api EXCEPT !.stage = "json", !.status = status]

\* const response = await fetch(url); if (!response.ok) throw new Error(...)
ResponseArrives(status) ==
  IF ~Ok(status)
  THEN api' = [api EXCEPT !.stage = "done", !.status = status,
                          !.outcome = HttpError(FailureText, status)]
  ELSE api' = [api EXCEPT !.stage = "json", !.status = status]

GetCharacters(filtersArg) ==
  /\ api.stage \in {"idle", "done"}
  /\ api.calls < MaxCalls
  /\ CallGetCharacters(filtersArg)
  /\ UNCHANGED <<uiVars, urlVars, detail>>

GetCharacter(id) ==
  /\ api.stage \in {"idle", "done"}
  /\ api.calls < MaxCalls
  /\ CallGetCharacter(id)
  /\ UNCHANGED <<uiVars, urlVars, detail>>

FetchResolves(status) ==
  /\ api.stage = "fetch"
  /\ ResponseArrives(status)
  /\ UNCHANGED <<uiVars, urlVars, detail>>

\* the transport fails: await fetch(url) throws
FetchRejects ==
  /\ api.stage = "fetch"
  /\ api' = [api EXCEPT !.stage = "done", !.outcome = NetworkError]
  /\ UNCHANGED <<uiVars, urlVars, detail>>

\* return response.json()
JsonResolves(body) ==
  /\ api.stage = "json"
  /\ api' = [api EXCEPT !.stage = "done", !.outcome = Value(body)]
  /\ UNCHANGED <<uiVars, urlVars, detail>>

JsonRejects ==
  /\ api.stage = "json"
  /\ api' = [api EXCEPT !.stage = "done", !.outcome = ParseError]
  /\ UNCHANGED <<uiVars, urlVars, detail>>

InitAPI ==
  /\ UiIdle
  /\ UrlIdle
  /\ ClientIdle

NextAPI ==
  \/ \E f \in FilterInputs : GetCharacters(f)
  \/ \E id \in IdInputs : GetCharacter(id)
  \/ \E status \in Statuses : FetchResolves(status)
  \/ FetchRejects
  \/ \E body \in Bodies : JsonResolves(body)
  \/ JsonRejects

SpecAPI == InitAPI /\ [][NextAPI]_vars

(***************************************************************************)
(* The detail view (CharacterDetail): its query calls api.getCharacter.    *)
(***************************************************************************)
MaxVisits == 2

\* A view that takes a missing record for an error.
DetailViewNullIsError ==
  IF detail.status = "pending" /\ detail.fetching THEN "loading"
  ELSE IF detail.status = "error" \/ detail.data \in {"none", "null"} THEN "error"
  ELSE "success"

\* if (isLoading) ... if (isError) ... if (!character) ... return ( ... )
DetailView ==
  IF detail.status = "pending" /\ detail.fetching THEN "loading"
  ELSE IF detail.status = "error" THEN "error"
  ELSE IF detail.data \in {"none", "null"} THEN "not-found"
  ELSE "success"

\* Every branch but the spinner has the Back to Characters button.
BackShown == DetailView \in {"error", "not-found", "success"}

\* The route /character/$characterId is entered (a row of the list was clicked, or
\* the URL was typed): the view mounts and its query fetches.
OpenDetail(cid) ==
  /\ ~detail.mounted
  /\ detail.visits < MaxVisits
  /\ detail' = [detail EXCEPT !.mounted = TRUE, !.characterId = cid,
                              !.status = IF detail.cache[cid] = "none" THEN "pending"
                                         ELSE "success",
                              !.data = detail.cache[cid], !.fetching = TRUE,
                              !.error = NoOutcome, !.failureCount = 0,
                              !.visits = @ + 1]
  /\ CallGetCharacter(Number(Str(cid)))
  /\ UNCHANGED <<uiVars, urlVars>>

\* The promise of queryFn settles.
DetailSettles ==
  /\ detail.mounted
  /\ detail.fetching
  /\ api.stage = "done"
  /\ IF api.outcome.kind = "value"
     THEN /\ detail' = [detail EXCEPT !.status = "success", !.data = api.outcome.body,
                                      !.fetching = FALSE, !.error = NoOutcome,
                                      !.cache[detail.characterId] = api.outcome.body]
          /\ UNCHANGED api
     ELSE IF detail.failureCount < queryRetry
     THEN /\ detail' = [detail EXCEPT !.failureCount = @ + 1]
          /\ CallGetCharacter(api.id)
     ELSE /\ detail' = [detail EXCEPT !.status = "error", !.error = api.outcome,
                                      !.fetching = FALSE]
          /\ UNCHANGED api
  /\ UNCHANGED <<uiVars, urlVars>>

\* Back to Characters: navigate({ to: '/' }), the view unmounts.
Back ==
  /\ detail.mounted
  /\ BackShown
  /\ detail' = [detail EXCEPT !.mounted = FALSE, !.characterId = "", !.status = "pending",
                              !.data = "none", !.fetching = FALSE, !.error = NoOutcome,
                              !.failureCount = 0]
  /\ UNCHANGED <<uiVars, urlVars, api>>

NextDetail ==
  \/ \E cid \in CharacterIds : OpenDetail(cid)
  \/ \E status \in Statuses : FetchResolves(status)
  \/ FetchRejects
  \/ \E body \in Bodies : JsonResolves(body)
  \/ JsonRejects
  \/ DetailSettles
  \/ Back

SpecDetail == InitAPI /\ [][NextDetail]_vars

(***************************************************************************)
(* The State Model as the specification declares it.                       *)
(***************************************************************************)
DefaultState ==
  [page |-> Num(1), name |-> Str(""), status |-> Str(""), species |-> Str(""),
   gender |-> Str(""), sortBy |-> Str(""), sortOrder |-> Str("asc")]

IsString(v) == v.t = "string"
InDomain(s) ==
  /\ DOMAIN s = Keys
  /\ s.page.t = "number" /\ s.page.n >= 1
  /\ IsString(s.name) /\ IsString(s.species) /\ IsString(s.sortBy)
  /\ IsString(s.status) /\ s.status.s \in StatusOptions
  /\ IsString(s.gender) /\ s.gender.s \in GenderOptions
  /\ IsString(s.sortOrder) /\ s.sortOrder.s \in SortOrders

\* C7: whatever the query, and whichever of its parameters are absent, the decoded
\* state has all seven fields, none of them undefined, and every absent parameter
\* has its default: page 1, sortOrder 'asc', '' for the others.
C7_DefaultsForAbsent ==
  stage = "decoded" =>
    /\ DOMAIN decoded = Keys
    /\ \A k \in Keys :
         /\ decoded[k] # Undef
         /\ k \notin DOMAIN rawSearch => decoded[k] = DefaultState[k]

C7_Witness ==
  /\ stage = "decoded"
  /\ DOMAIN rawSearch = {}
  /\ decoded = DefaultState

\* C8 (as claimed): every decoded state lies in the declared domains: page a positive
\* integer, status and gender among their options or '', sortOrder asc or desc.
C8_DecodedInDomain == stage = "decoded" => InDomain(decoded)

\* C9: a state in the declared domains survives the round trip, whether its empty
\* fields are written as '' or left out; and decoding any decoded state again
\* (written back with all its fields) returns it unchanged.
C9_RoundTrip ==
  /\ stage = "kept-decoded" => again = decoded
  /\ stage = "omitted-decoded" /\ InDomain(decoded) => again = decoded

C9_Witness ==
  /\ stage = "omitted-decoded"
  /\ InDomain(decoded)
  /\ decoded.page = Num(2) /\ decoded.status = Str("dead") /\ decoded.name = Str("")
  /\ "name" \notin DOMAIN rawSearch
  /\ again = decoded

(***************************************************************************)
(* Properties of the component.                                            *)
(***************************************************************************)
\* A step in which the callback of the name (species) timer tm issues a commit.
NameCommitStep(tm) ==
  /\ tm \in Due(nameTimers)
  /\ tm.value # tm.env.name
  /\ NameTimerFires
  /\ nameTimers' = nameTimers \ {tm}

SpeciesCommitStep(tm) ==
  /\ tm \in Due(speciesTimers)
  /\ tm.value # tm.env.species
  /\ SpeciesTimerFires
  /\ speciesTimers' = speciesTimers \ {tm}

\* A step that calls handleSearch.
HandleSearchStep ==
  \/ SubmitName
  \/ SubmitSpecies
  \/ \E v \in StatusChoices : SelectStatus(v)
  \/ \E v \in GenderChoices : SelectGender(v)
  \/ \E tm \in nameTimers : NameCommitStep(tm)
  \/ \E tm \in speciesTimers : SpeciesCommitStep(tm)

\* C1: every step that calls handleSearch (Enter or the search button, a dropdown
\* change, a debounce timer that commits) issues a navigation with page = 1.
C1_HandleSearchResetsPage ==
  [][HandleSearchStep => pending' # <<>> /\ pending'[1].page = Num(1)]_vars

\* A status commit issued from page 2.
C1_Witness ==
  /\ pending # <<>>
  /\ DOMAIN pending[1] = Keys
  /\ url.page = Num(2)
  /\ pending[1].page = Num(1)
  /\ pending[1].status = Str("alive")
  /\ url.status = Str("")

\* C2: Previous and Next navigate with the new page number and with every other
\* field as it is in the committed search state.
C2_PageChangeKeepsFilters ==
  [][\A d \in {-1, 1} :
       PageChange(d) =>
         /\ pending' # <<>>
         /\ pending'[1].page = Num(url.page.n + d)
         /\ \A k \in Keys \ {"page"} : pending'[1][k] = url[k]]_vars

\* Next pressed on page 1 with a status filter committed.
C2_Witness ==
  /\ pending = <<[url EXCEPT !.page = Num(2)]>>
  /\ url.page = Num(1)
  /\ url.status = Str("alive")
  /\ PaginationShown

\* C3: a field has at most one timer pending (a keystroke cancels the timer of the
\* previous one); a burst of keystrokes gets at most one debounced commit, issued
\* no sooner than DebounceMs after the last keystroke and carrying its value.
C3_DebounceLastWriteWins ==
  /\ [](Cardinality(nameTimers) <= 1 /\ Cardinality(speciesTimers) <= 1)
  /\ [][\A tm \in nameTimers :
          NameCommitStep(tm) =>
            /\ nameBurst.phase # "committed"
            /\ nameBurst.phase = "open" =>
                 /\ nameBurst.idle >= DebounceMs
                 /\ pending'[1].name = searchInput]_vars
  /\ [][\A tm \in speciesTimers :
          SpeciesCommitStep(tm) =>
            /\ speciesBurst.phase # "committed"
            /\ speciesBurst.phase = "open" =>
                 /\ speciesBurst.idle >= DebounceMs
                 /\ pending'[1].species = speciesInput]_vars

\* Two keystrokes less than DebounceMs apart, then the one debounced commit, with
\* the value of the second.
C3_Witness ==
  /\ nameBurst.phase = "committed"
  /\ nameBurst.keys = 2
  /\ pending # <<>>
  /\ DOMAIN pending[1] = Keys
  /\ pending[1].name = searchInput
  /\ searchInput = Str("b")
  /\ url.name = Str("")
  /\ nameTimers = {}

\* C4 (as claimed): Enter or the search button commits the echo at once, and once
\* that commit is the committed state the timer of the last keystroke issues no
\* second commit.
C4_EnterCancelsTimer ==
  /\ [][SubmitName =>
          pending' = <<[url EXCEPT !.name = searchInput, !.page = Num(1)]>>]_vars
  /\ [][\A tm \in nameTimers :
          NameCommitStep(tm) =>
            ~(nameBurst.entered /\ pending = <<>> /\ url.name = tm.value)]_vars
  /\ [][\A tm \in speciesTimers :
          SpeciesCommitStep(tm) =>
            ~(speciesBurst.entered /\ pending = <<>> /\ url.species = tm.value)]_vars

\* C5: Clear Filters navigates to the default state, and when that navigation is
\* applied the committed state is the default state and the control is gone.
C5_ClearResetsAll ==
  /\ [][ClearFilters => pending' = <<DefaultState>>]_vars
  /\ [][ApplyNav /\ pending = <<DefaultState>> =>
          url' = DefaultState /\ ~ClearShown']_vars

\* Clear Filters pressed with a name, a page and a sort committed.
C5_Witness ==
  /\ pending = <<DefaultState>>
  /\ url.name = Str("a")
  /\ url.page = Num(2)
  /\ url.sortBy = Str("name")
  /\ url.sortOrder = Str("desc")
  /\ searchInput = Str("")

\* C6: a change of the status or gender dropdown issues, in that step, the
\* navigation with the selected value (the empty option included) and page = 1,
\* and starts or cancels no timer.
C6_DropdownCommitsAtOnce ==
  /\ [][\A v \in StatusChoices :
          SelectStatus(v) =>
            /\ pending' # <<>>
            /\ pending'[1].status = v
            /\ pending'[1].page = Num(1)
            /\ UNCHANGED <<nameTimers, speciesTimers>>]_vars
  /\ [][\A v \in GenderChoices :
          SelectGender(v) =>
            /\ pending' # <<>>
            /\ pending'[1].gender = v
            /\ pending'[1].page = Num(1)
            /\ UNCHANGED <<nameTimers, speciesTimers>>]_vars

\* The dropdown set back to All Statuses.
C6_Witness ==
  /\ pending # <<>>
  /\ DOMAIN pending[1] = Keys
  /\ url.status = Str("alive")
  /\ pending[1].status = Str("")
  /\ pending[1].gender = url.gender
  /\ pending[1].page = Num(1)

\* C10: the argument of api.getCharacters has exactly page, name, status, species
\* and gender, each taken from the committed search state, '' replaced by
\* undefined: no sort field, and nothing of the echoes.
C10_ApiFiltersFromUrl ==
  /\ DOMAIN apiArg = {"page", "name", "status", "species", "gender"}
  /\ apiArg.page = url.page
  /\ \A k \in {"name", "status", "species", "gender"} :
       apiArg[k] = IF url[k] = Str("") THEN Undef ELSE url[k]
  /\ filters = apiArg

\* A name typed and not committed, a sort in the URL, empty filters.
C10_Witness ==
  /\ url.sortBy = Str("name")
  /\ url.name = Str("a")
  /\ searchInput = Str("b")
  /\ apiArg.name = Str("a")
  /\ apiArg.status = Undef
  /\ apiArg.page = Num(2)

(***************************************************************************)
(* Properties of the API client.                                           *)
(***************************************************************************)
FilterFields == {"name", "status", "species", "gender"}
\* The positions of the query at which the parameter k stands.
At(query, k) == {i \in 1..Len(query) : query[i][1] = k}

\* C11: the query of a getCharacters request has a parameter for exactly those of
\* name, status, species and gender that are present and not '' in filters, with
\* the (url-encoded) value of the field; it has the page parameter when filters
\* has a page (a positive integer) and none when page is absent; no parameter
\* stands twice, none has an empty value, and there are no other parameters.
C11_QueryOmitsEmpty ==
  api.fn = "getCharacters" =>
    LET f == api.filtersArg
        q == api.request.query
    IN /\ \A k \in FilterFields :
            /\ At(q, k) # {} <=> (k \in DOMAIN f /\ f[k] # Str(""))
            /\ \A i \in At(q, k) : q[i][2] = FormEncode(f[k].s)
       /\ "page" \in DOMAIN f /\ f.page.n >= 1 =>
            \E i \in At(q, "page") : q[i][2] = NumberToString(f.page)
       /\ "page" \notin DOMAIN f => At(q, "page") = {}
       /\ \A i \in 1..Len(q) :
            /\ q[i][1] \in FilterFields \cup {"page"}
            /\ q[i][2] # ""
            /\ At(q, q[i][1]) = {i}

\* A call with an empty name, an absent status, a species and a page.
C11_Witness ==
  /\ api.fn = "getCharacters"
  /\ "name" \in DOMAIN api.filtersArg
  /\ api.filtersArg.name = Str("")
  /\ "status" \notin DOMAIN api.filtersArg
  /\ "gender" \notin DOMAIN api.filtersArg
  /\ api.request.query = <<<<"page", "2">>, <<"species", "human">>>>

\* C12: a call has issued exactly one request; when the response is not 2xx the
\* outcome is an error that carries the status; when the transport rejected (no
\* response) the outcome is an error; a value is returned only for a 2xx response.
C12_FailuresAreErrors ==
  /\ api.requests = api.calls
  /\ api.stage = "done" /\ api.status # 0 /\ ~Ok(api.status) =>
       /\ api.outcome.kind = "error"
       /\ api.outcome.status = api.status
  /\ api.stage = "done" /\ api.status = 0 => api.outcome.kind = "error"
  /\ api.outcome.kind = "value" => Ok(api.status)
  /\ api.stage = "done" => api.outcome.kind \in {"value", "error"}

\* The second call, a getCharacter answered 404.
C12_Witness ==
  /\ api.fn = "getCharacter"
  /\ api.stage = "done"
  /\ api.status = 404
  /\ api.outcome = HttpError("Failed to fetch character: ", 404)
  /\ api.calls = 2
  /\ api.requests = 2

(***************************************************************************)
(* Properties of the detail view.                                          *)
(***************************************************************************)
\* C18: the detail view is in one of loading, error, not-found and success, each
\* for its own case: loading while the first fetch is in flight; a fetch that
\* settles without error and without a record gives not-found, never error; a
\* fetch that fails (the transport, a status that is not 2xx) gives error, with
\* the back action.
C18_DetailPresentations ==
  /\ [](detail.mounted =>
          /\ DetailView = "loading" <=> (detail.fetching /\ detail.data = "none")
          /\ DetailView = "error" <=> detail.error.kind = "error"
          /\ DetailView = "error" => BackShown
          /\ DetailView = "not-found" <=>
               (detail.status = "success" /\ detail.data = "null")
          /\ DetailView = "success" <=>
               (detail.status = "success" /\ detail.data \in {"Record", "Page"}))
  /\ [][DetailSettles /\ api.outcome = Value("null") =>
          DetailView' = "not-found"]_vars
  /\ [][DetailSettles /\ api.outcome.kind = "error" =>
          DetailView' = "error" /\ BackShown' /\ detail'.error = api.outcome]_vars
  /\ [][DetailSettles /\ api.status # 0 /\ ~Ok(api.status) =>
          DetailView' = "error"]_vars

\* A 200 response whose body is null: not found.
C18_Witness ==
  /\ detail.mounted
  /\ api.status = 200
  /\ api.outcome = Value("null")
  /\ detail.status = "success"
  /\ ~detail.fetching
  /\ DetailView = "not-found"
  /\ BackShown

(***************************************************************************)
(* Properties of the list view.                                            *)
(***************************************************************************)
\* b has the elements of a, each as often as a has it.
IsPermutation(a, b) ==
  /\ Len(a) = Len(b)
  /\ \A i \in 1..Len(a) :
       Cardinality({j \in 1..Len(a) : a[j] = a[i]})
         = Cardinality({j \in 1..Len(b) : b[j] = a[i]})

\* C13: a click on a column header changes the sorting state and with it only the
\* order of the rows: the committed state, the navigation in flight, the query key,
\* the request and the Page of the query stay as they are.
C13_SortIsClientSide ==
  [][\A col \in SortClicks :
       SortColumn(col) =>
         /\ UNCHANGED <<url, pending, filters, apiArg, fetching, qstatus, info>>
         /\ IsPermutation(TableRows, TableRows')]_vars

\* The name header clicked once on a loaded page: the rows are in the order of the
\* names, the data and the URL are as before.
C13_Witness ==
  /\ sorting = <<[id |-> "name", desc |-> FALSE]>>
  /\ info.results = SomeRecords
  /\ TableRows = <<SomeRecords[2], SomeRecords[1]>>
  /\ url = DefaultState
  /\ pending = <<>>
  /\ ~fetching
  /\ events = 1

\* C14: with the pagination controls shown, Previous is disabled on page 1 and
\* whenever the Page has no info.prev, Next is disabled whenever it has no
\* info.next, and nothing else disables them: the Page of these states has Records.
C14_PaginationDisabling ==
  PaginationShown =>
    /\ url.page = Num(1) \/ ~info.prev => PrevDisabled
    /\ ~info.next => NextDisabled
    /\ PrevDisabled <=> ~info.prev
    /\ NextDisabled <=> ~info.next

\* The first of several pages.
C14_Witness ==
  /\ PaginationShown
  /\ url.page = Num(1)
  /\ PrevDisabled
  /\ ~NextDisabled
  /\ Len(info.results) > 0

C16_ClearShownIffFilter ==
  View = "list" => (ClearShown <=> \E k \in FilterFields : url[k] # Str(""))

\* A sort committed, a species typed and not committed, no filter committed: the
\* control is not there.
C16_Witness ==
  /\ View = "list"
  /\ url.sortBy = Str("name")
  /\ \A k \in FilterFields : url[k] = Str("")
  /\ speciesInput = Str("h")
  /\ ~ClearShown

\* C17: the list view is in one of four presentations, each for its own case: the
\* spinner while a fetch is in flight and there is no Page; the error message after
\* a failure; the empty-state row, and no other row, when the Page has no Records;
\* else one row per Record of the Page.
C17_ListPresentations ==
  /\ Presentation = "loading" <=> (fetching /\ ~info.has)
  /\ Presentation = "error" <=> qstatus = "error"
  /\ Presentation = "empty" <=>
       (qstatus = "success" /\ info.has /\ info.results = <<>>)
  /\ Presentation = "table" <=>
       (qstatus = "success" /\ info.has /\ info.results # <<>>)
  /\ EmptyShown <=> Presentation = "empty"
  /\ Presentation = "empty" => TableRows = <<>>
  /\ Presentation = "table" => IsPermutation(info.results, TableRows)
  /\ Presentation \in {"loading", "error"} => TableRows = <<>> /\ ~EmptyShown

\* A Page without Records: the empty-state row.
C17_Witness ==
  /\ Presentation = "empty"
  /\ EmptyShown
  /\ qstatus = "success"
  /\ info.has
  /\ info.pages = 1
  /\ TableRows = <<>>

(***************************************************************************)
(* Properties of the debounce timers against later commits.                *)
(***************************************************************************)
\* C19 (as claimed): the commit of a debounce timer carries the value of its field
\* and, for every other field but page, the value committed at the moment it fires.
C19_TimerMergesIntoCurrent ==
  /\ [][\A tm \in nameTimers :
          NameCommitStep(tm) =>
            /\ pending'[1].name = tm.value
            /\ \A k \in Keys \ {"name", "page"} : pending'[1][k] = url[k]]_vars
  /\ [][\A tm \in speciesTimers :
          SpeciesCommitStep(tm) =>
            /\ pending'[1].species = tm.value
            /\ \A k \in Keys \ {"species", "page"} : pending'[1][k] = url[k]]_vars

\* C20 (as claimed): Clear Filters sets both echoes to ''; after it, and until the
\* next input, no debounce timer issues a commit, and once the navigation of the
\* clear is applied the committed state is the default state.
C20_ClearCancelsTimers ==
  /\ [][ClearFilters => searchInput' = Str("") /\ speciesInput' = Str("")]_vars
  /\ [][cleared =>
          /\ \A tm \in nameTimers : ~NameCommitStep(tm)
          /\ \A tm \in speciesTimers : ~SpeciesCommitStep(tm)]_vars
  /\ [](cleared /\ pending = <<>> => url = DefaultState)

(***************************************************************************)
(* Cancellation, resynchronisation and ordering.                           *)
(***************************************************************************)
\* C21: a timer that was superseded or whose component was unmounted commits
\* nothing.  Every change of an echo leaves pending only the timer of that change
\* (the timers of earlier edits are cancelled), a timer that commits does so in the
\* mounted component with the value the echo holds, and once the list is unmounted
\* (the detail route was entered) no timer is pending and no navigation is issued.
C21_CancelledTimerNeverCommits ==
  /\ [][searchInput' # searchInput =>
          nameTimers' = {setTimeout(searchInput', tm.env) : tm \in nameTimers'}]_vars
  /\ [][speciesInput' # speciesInput =>
          speciesTimers' = {setTimeout(speciesInput', tm.env) : tm \in speciesTimers'}]_vars
  /\ [][\A tm \in nameTimers :
          NameCommitStep(tm) => mounted /\ tm.value = searchInput]_vars
  /\ [][\A tm \in speciesTimers :
          SpeciesCommitStep(tm) => mounted /\ tm.value = speciesInput]_vars
  /\ [](~mounted => nameTimers = {} /\ speciesTimers = {})
  /\ [][~mounted => pending' = pending]_vars

\* A name typed, a row clicked before the timer ran out, the list left: DebounceMs
\* after the keystroke nothing was committed and nothing is pending.
C21_Witness ==
  /\ ~mounted
  /\ nameBurst.phase = "open"
  /\ nameBurst.idle = DebounceMs
  /\ searchInput = Str("a")
  /\ url.name = Str("")
  /\ pending = <<>>
  /\ nameTimers = {}

\* C22: a step that changes the committed name (species) leaves the echo of that
\* field at the new committed value, and issues no navigation: the step itself
\* navigates nowhere, and the timer the change of the echo starts belongs to a
\* render in which the echo equals the committed value, so that its callback
\* commits nothing.
C22_UrlChangeResyncsEcho ==
  /\ [][url'.name # url.name =>
          /\ searchInput' = url'.name
          /\ pending' = <<>>
          /\ searchInput' # searchInput =>
               nameTimers' = {setTimeout(url'.name, url')}]_vars
  /\ [][url'.species # url.species =>
          /\ speciesInput' = url'.species
          /\ pending' = <<>>
          /\ speciesInput' # speciesInput =>
               speciesTimers' = {setTimeout(url'.species, url')}]_vars

\* The list was entered at ?page=2&name=a&sortBy=name&sortOrder=desc and the
\* history went to the plain URL: the echo, that held a, is empty and the timer of
\* that change is the only one.
C22_Witness ==
  /\ events = 1
  /\ sorting = <<[id |-> "name", desc |-> TRUE]>>
  /\ url = DefaultState
  /\ searchInput = Str("")
  /\ nameTimers = {setTimeout(Str(""), DefaultState)}
  /\ pending = <<>>

\* C23: the Page the list view displays answers the request for the committed
\* filter and page state, in whatever order the requests in flight settle: a request
\* of a superseded state that settles changes nothing of what is displayed.
C23_LatestFetchWins ==
  /\ [](info.has => dataKey = FiltersOf(url))
  /\ [][inflight' # inflight /\ filters' = filters =>
          UNCHANGED <<info, qstatus, fetching, dataKey>>]_vars

\* The history went to ?page=2&name=a while the first request was in flight; the
\* request of the new state settled first and its Page is displayed, the earlier
\* request is still in flight.
C23_Witness ==
  /\ inflight = {FiltersOf(DefaultState)}
  /\ dataKey = FiltersOf(url)
  /\ url.name = Str("a")
  /\ url.page = Num(2)
  /\ info.has
  /\ ~fetching
  /\ events = 1

\* C24 (as claimed): a change of the sort column or of the sort order resets the
\* page to 1: the step that changes the sorting state happens on page 1 or issues
\* a navigation with page = 1.
C24_SortResetsPage ==
  [][sorting' # sorting =>
       (url.page = Num(1) /\ pending = <<>>)
         \/ (pending' # <<>> /\ Get(pending'[1], "page") = Num(1))]_vars

\* No timer is pending and no navigation is waiting for the router.
Settled == nameTimers = {} /\ speciesTimers = {} /\ pending = <<>>

\* The committed name and species are what the user typed last.
TypedIsCommitted ==
  /\ typed.name # Undef => url.name = typed.name
  /\ typed.species # Undef => url.species = typed.species

\* C25 (as claimed): once the user has stopped, the list view comes to rest, no
\* timer pending and no navigation waiting, with the committed name and species
\* equal to what was typed last into each input.
C25_TypedEventuallyCommitted ==
  <>[](mounted => Settled /\ TypedIsCommitted)

\* C26 (as claimed): an echo that holds what the user typed last, with no commit
\* issued for it yet, is not replaced when the router applies a navigation.
C26_KeystrokeNotLost ==
  /\ [][ApplyNav /\ nameBurst.phase = "open" /\ typed.name = searchInput =>
          searchInput' = searchInput]_vars
  /\ [][ApplyNav /\ speciesBurst.phase = "open" /\ typed.species = speciesInput =>
          speciesInput' = speciesInput]_vars

====
